---- MODULE Spec2Model ----
(***************************************************************************)
(* Model of the Vancouver public-art status tools                          *)
(* (vancouver_art_status_tools.py, class Tools, and the limit parsing of   *)
(* api_server.py).                                                         *)
(*                                                                         *)
(* Strings the code inspects character by character (names, titles,        *)
(* neighbourhoods, queries) are sequences of one-character strings, so     *)
(* that lower(), strip(), split(",") and the `in` substring test are       *)
(* computed and not assumed.  Strings the code only copies and compares    *)
(* for equality (status, location) are TLA+ strings.  A description is     *)
(* its length, which is all that the truncation at 300 characters uses.    *)
(* A formatted response is the record of the values its f-string           *)
(* interpolates, in order.                                                 *)
(***************************************************************************)
EXTENDS Integers, Sequences, FiniteSets, TLC

VARIABLES
    pc,         \* "loading" inside Tools.__init__, "ready" once it returned,
                \* "returned" while a query's string is handed to the caller
    md_files,   \* the list glob.glob returned
    loaded,     \* how many of them the loader's for loop has gone through
    status_db,  \* self.status_db: <<key, data>> pairs in dict insertion order
    call,       \* the last query made and its arguments
    result      \* what that query returned

vars == <<pc, md_files, loaded, status_db, call, result>>

----------------------------------------------------------------------------
(* Bounds of the model *)

MaxFiles == 4       \* files in the directory
MaxLimit == 2       \* largest limit passed to the list operations
MaxTokens == 2      \* comma-separated pieces of a compare input

(* Constants of the program *)

MaxShown == 5       \* matches[:5]
DescLimit == 300    \* description[:300]
EllipsisLen == 3    \* len("...")

----------------------------------------------------------------------------
(* str methods *)

LowerChar(ch) ==
    CASE ch = "A" -> "a"
      [] ch = "B" -> "b"
      [] ch = "C" -> "c"
      [] OTHER -> ch

\* str.lower()
Lower(s) == [i \in 1..Len(s) |-> LowerChar(s[i])]

\* the `sub in s` test on strings
Contains(sub, s) ==
    \E i \in 0..(Len(s) - Len(sub)) : SubSeq(s, i + 1, i + Len(sub)) = sub

IsSpace(ch) == ch = " "

RECURSIVE LStrip(_)
LStrip(s) ==
    IF s # <<>> /\ IsSpace(Head(s)) THEN LStrip(Tail(s)) ELSE s

RECURSIVE RStrip(_)
RStrip(s) ==
    IF s # <<>> /\ IsSpace(s[Len(s)]) THEN RStrip(SubSeq(s, 1, Len(s) - 1)) ELSE s

\* str.strip()
Strip(s) == RStrip(LStrip(s))

\* str.split(","): the pieces between the commas, empty pieces included
RECURSIVE Split(_)
Split(s) ==
    IF \E i \in 1..Len(s) : s[i] = ","
    THEN LET i == CHOOSE j \in 1..Len(s) :
                      s[j] = "," /\ \A k \in 1..(j - 1) : s[k] # ","
         IN  <<SubSeq(s, 1, i - 1)>> \o Split(SubSeq(s, i + 1, Len(s)))
    ELSE <<s>>

\* a slice that keeps one element too many
Slice_OneMore(xs, n) ==
    SubSeq(xs, 1, IF n + 1 < Len(xs) THEN n + 1 ELSE Len(xs))

\* list slice xs[:n], n of either sign
Slice(xs, n) ==
    IF n >= 0
    THEN SubSeq(xs, 1, IF n < Len(xs) THEN n ELSE Len(xs))
    ELSE SubSeq(xs, 1, IF Len(xs) + n > 0 THEN Len(xs) + n ELSE 0)

----------------------------------------------------------------------------
(* dict operations on status_db *)

Keys(db) == {db[i][1] : i \in 1..Len(db)}

HasKey(db, k) == \E i \in 1..Len(db) : db[i][1] = k

\* db[k]
Get(db, k) == db[CHOOSE i \in 1..Len(db) : db[i][1] = k][2]

\* db[k] = v: a key already present keeps its position
Put(db, k, v) ==
    IF HasKey(db, k)
    THEN [i \in 1..Len(db) |-> IF db[i][1] = k THEN <<k, v>> ELSE db[i]]
    ELSE Append(db, <<k, v>>)

----------------------------------------------------------------------------
(* The record files.  A file is its name without ".md", whether open and
   read succeed, and for each section header the loader searches either <<>>
   (re.search finds nothing) or <<line>>, the text group(1) captures. *)

File(n, ok, t, s, d) ==
    [name |-> n, readable |-> ok, title |-> t, status |-> s,
     neighbourhood |-> d.neighbourhood, location |-> d.location,
     description |-> d.description]

\* a title that lowercases to the name of the file "A"
SharedTitle == <<" ", "a">>

\* a title no other file carries
OwnTitle(n) == <<"C">> \o n

\* a file without a Status section gets "Unknown", which like every other
\* text than "In place" counts as not in place
StatusLines == {<<>>, <<"In place">>}

\* the Neighbourhood, LocationOnsite and DescriptionOfwork sections
NoDetails == [neighbourhood |-> <<>>, location |-> <<>>, description |-> <<>>]

DetailSections ==
    { NoDetails,
      [neighbourhood |-> << <<"B", "c">> >>, location |-> <<"Main St">>,
       description |-> <<DescLimit + 1>>] }

\* what a file holds, whatever its name: unreadable bytes, or sections, with
\* no title, the shared title or a title of its own
Body(ok, t, s, d) == [readable |-> ok, title |-> t, status |-> s, details |-> d]

UnreadableBody == Body(FALSE, "none", <<>>, NoDetails)

TitleLine(n, t) ==
    CASE t = "none" -> <<>>
      [] t = "shared" -> <<SharedTitle>>
      [] t = "own" -> <<OwnTitle(n)>>

FileNamed(n, body) ==
    File(n, body.readable, TitleLine(n, body.title), body.status, body.details)

\* the directories of Spec: few names, every kind of body
Names == {<<"A">>, <<"b">>, <<"A", "b">>}

Bodies ==
    { Body(TRUE, t, s, d) :
        t \in {"none", "shared", "own"}, s \in StatusLines, d \in DetailSections }
    \cup {UnreadableBody}

\* the directories of SpecFuzzy: more names, plainer bodies
WideNames == {<<"A">>, <<"b">>, <<"A", "b">>, <<"B", "c">>, <<"c">>}

WideBodies ==
    { Body(TRUE, t, s, NoDetails) : t \in {"none", "own"}, s \in StatusLines }

\* the directories of SpecIndex: file names that differ in letter case only
CaseNames == {<<"A">>, <<"a">>, <<"b">>}

\* the names of a glob.glob result: no file name twice, any order
IsListing(ns) == \A i, j \in 1..Len(ns) : ns[i] = ns[j] => i = j

Listing(ns, bs) == [i \in 1..Len(ns) |-> FileNamed(ns[i], bs[i])]

----------------------------------------------------------------------------
(* Tools.__init__ and Tools._load_status_database *)

\* description[:300] + "..." if len(description) > 300 else description
Truncate(n) == IF n > DescLimit THEN DescLimit + EllipsisLen ELSE n

\* the dict literal built from one file's sections
ParseFile(f) ==
    [ name         |-> f.name,
      title        |-> IF f.title # <<>> THEN Strip(f.title[1]) ELSE f.name,
      status       |-> IF f.status # <<>> THEN f.status[1] ELSE "Unknown",
      location     |-> IF f.location # <<>> THEN f.location[1] ELSE "",
      neighborhood |-> IF f.neighbourhood # <<>>
                       THEN Strip(f.neighbourhood[1]) ELSE <<>>,
      description  |-> IF f.description # <<>>
                       THEN Truncate(f.description[1]) ELSE 0,
      filename     |-> f.name \o <<".", "m", "d">> ]

\* a second assignment under the title as the file gives it
StoreRecord_TitleAsTyped(db, data) ==
    LET byName == Put(db, Lower(data.name), data)
    IN  IF Lower(data.title) # Lower(data.name)
        THEN Put(byName, data.title, data)
        ELSE byName

\* the two assignments into self.status_db
StoreRecord(db, data) ==
    LET byName == Put(db, Lower(data.name), data)
    IN  IF Lower(data.title) # Lower(data.name)
        THEN Put(byName, Lower(data.title), data)
        ELSE byName

\* the body of the for loop: the try block, or the except clause that prints
ProcessFile(db, f) ==
    IF f.readable THEN StoreRecord(db, ParseFile(f)) ELSE db

NoCall == [op |-> "none"]
NoResult == [kind |-> "none"]

InitWith(names, bodies) ==
    /\ pc = "loading"
    /\ \E n \in 0..MaxFiles :
         \E ns \in [1..n -> names] :
            /\ IsListing(ns)
            /\ \E bs \in [1..n -> bodies] : md_files = Listing(ns, bs)
    /\ loaded = 0
    /\ status_db = <<>>
    /\ call = NoCall
    /\ result = NoResult

Init == InitWith(Names, Bodies)

InitFuzzy == InitWith(WideNames, WideBodies)

InitIndex == InitWith(CaseNames, Bodies)

\* a loop that a file it cannot read ends
LoadFile_AbortsOnError ==
    /\ pc = "loading"
    /\ loaded < Len(md_files)
    /\ status_db' = ProcessFile(status_db, md_files[loaded + 1])
    /\ loaded' = loaded + 1
    /\ pc' = IF md_files[loaded + 1].readable THEN pc ELSE "ready"
    /\ UNCHANGED <<md_files, call, result>>

\* one iteration of the for loop
LoadFile ==
    /\ pc = "loading"
    /\ loaded < Len(md_files)
    /\ status_db' = ProcessFile(status_db, md_files[loaded + 1])
    /\ loaded' = loaded + 1
    /\ UNCHANGED <<pc, md_files, call, result>>

\* the for loop ends and __init__ returns
FinishLoad ==
    /\ pc = "loading"
    /\ loaded = Len(md_files)
    /\ pc' = "ready"
    /\ UNCHANGED <<md_files, loaded, status_db, call, result>>

----------------------------------------------------------------------------
(* Tools.get_artwork_status *)

DetailLines(art) ==
    (IF art.location # "" THEN <<[label |-> "Location", location |-> art.location]>>
     ELSE <<>>)
    \o (IF art.neighborhood # <<>>
        THEN <<[label |-> "Neighborhood", neighborhood |-> art.neighborhood]>>
        ELSE <<>>)
    \o (IF art.description # 0
        THEN <<[label |-> "Description excerpt", description |-> art.description]>>
        ELSE <<>>)

\* a scan that stops at its first hit, as the scan of compare does
RECURSIVE FuzzyMatches_FirstOnly(_, _)
FuzzyMatches_FirstOnly(db, q) ==
    IF db = <<>> THEN <<>>
    ELSE IF Contains(q, Head(db)[1]) \/ Contains(q, Lower(Head(db)[2].title))
    THEN <<Head(db)[2]>>
    ELSE FuzzyMatches_FirstOnly(Tail(db), q)

\* a scan that looks at the keys alone
RECURSIVE FuzzyMatches_KeysOnly(_, _)
FuzzyMatches_KeysOnly(db, q) ==
    IF db = <<>> THEN <<>>
    ELSE (IF Contains(q, Head(db)[1]) THEN <<Head(db)[2]>> ELSE <<>>)
         \o FuzzyMatches_KeysOnly(Tail(db), q)

\* the fuzzy scan: the data of every entry whose key or title contains the query
RECURSIVE FuzzyMatches(_, _)
FuzzyMatches(db, q) ==
    IF db = <<>> THEN <<>>
    ELSE (IF Contains(q, Head(db)[1]) \/ Contains(q, Lower(Head(db)[2].title))
          THEN <<Head(db)[2]>> ELSE <<>>)
         \o FuzzyMatches(Tail(db), q)

MatchLine(m) == [title |-> m.title, status |-> m.status]

\* the key looked up as the caller typed it
ArtworkKey_AsTyped(artwork_name) == artwork_name

\* artwork_key = artwork_name.lower()
ArtworkKey(artwork_name) == Lower(artwork_name)

get_artwork_status(db, artwork_name, include_details) ==
    IF artwork_name = <<>>
    THEN [kind |-> "error", text |-> "Error: No artwork name provided"]
    ELSE LET artwork_key == ArtworkKey(artwork_name) IN
         IF HasKey(db, artwork_key)
         THEN LET art == Get(db, artwork_key) IN
              IF include_details
              THEN [kind |-> "exact", title |-> art.title, status |-> art.status,
                    details |-> IF DetailLines(art) # <<>> THEN DetailLines(art)
                                ELSE <<[label |-> "No additional details available"]>>]
              ELSE [kind |-> "exact", title |-> art.title, status |-> art.status,
                    details |-> <<>>]
         ELSE LET matches == FuzzyMatches(db, Lower(artwork_name)) IN
              IF matches # <<>>
              THEN [kind |-> "fuzzy", query |-> artwork_name,
                    count |-> Len(matches),
                    shown |-> [i \in 1..Len(Slice(matches, MaxShown)) |->
                                  MatchLine(Slice(matches, MaxShown)[i])],
                    more |-> IF Len(matches) > MaxShown
                             THEN <<Len(matches) - MaxShown>> ELSE <<>>]
              ELSE [kind |-> "not_found", query |-> artwork_name]

QueryNames ==
    {<<>>, <<"a">>, <<"A">>, <<"b">>, <<"A", "b">>, <<"c">>, <<"C">>}

GetArtworkStatus(artwork_name, include_details) ==
    /\ pc = "ready"
    /\ call' = [op |-> "get_artwork_status", artwork_name |-> artwork_name,
                include_details |-> include_details]
    /\ result' = get_artwork_status(status_db, artwork_name, include_details)
    /\ pc' = "returned"
    /\ UNCHANGED <<md_files, loaded, status_db>>

----------------------------------------------------------------------------
(* Ordering of strings, as list.sort and sorted compare them *)

\* ord(ch)
Ord(ch) ==
    CASE ch = " " -> 32 [] ch = "," -> 44 [] ch = "." -> 46
      [] ch = "A" -> 65 [] ch = "B" -> 66 [] ch = "C" -> 67
      [] ch = "a" -> 97 [] ch = "b" -> 98 [] ch = "c" -> 99
      [] ch = "d" -> 100 [] ch = "m" -> 109

\* s < t on str
RECURSIVE StrLess(_, _)
StrLess(s, t) ==
    IF t = <<>> THEN FALSE
    ELSE IF s = <<>> THEN TRUE
    ELSE IF Head(s) # Head(t) THEN Ord(Head(s)) < Ord(Head(t))
    ELSE StrLess(Tail(s), Tail(t))

\* insert x behind every element whose title is not greater (the sort is stable)
RECURSIVE InsertByTitle(_, _)
InsertByTitle(xs, x) ==
    IF xs = <<>> THEN <<x>>
    ELSE IF StrLess(x.title, Head(xs).title) THEN <<x>> \o xs
    ELSE <<Head(xs)>> \o InsertByTitle(Tail(xs), x)

\* xs.sort(key=lambda x: x["title"])
RECURSIVE SortByTitle(_)
SortByTitle(xs) ==
    IF xs = <<>> THEN <<>>
    ELSE InsertByTitle(SortByTitle(SubSeq(xs, 1, Len(xs) - 1)), xs[Len(xs)])

\* sorted(list(a set of strings))
RECURSIVE SortedStrings(_)
SortedStrings(S) ==
    IF S = {} THEN <<>>
    ELSE LET m == CHOOSE x \in S : \A y \in S \ {x} : StrLess(x, y)
         IN  <<m>> \o SortedStrings(S \ {m})

\* self.status_db.values()
Values(db) == [i \in 1..Len(db) |-> db[i][2]]

----------------------------------------------------------------------------
(* Tools.list_active_artworks (the second definition, which is the one the
   class keeps; the first is the same code) *)

\* the neighbourhood test of the list operations
InNeighborhood(data, neighborhood) ==
    data.neighborhood # <<>> /\ Contains(Lower(neighborhood), Lower(data.neighborhood))

\* the test without the status
IsActiveMatch_AnyStatus(data, neighborhood) ==
    neighborhood = <<>> \/ InNeighborhood(data, neighborhood)

\* whether the loop appends this entry
IsActiveMatch(data, neighborhood) ==
    /\ data.status = "In place"
    /\ (neighborhood = <<>> \/ InNeighborhood(data, neighborhood))

\* a loop that marks every title it meets as seen, listed or not
RECURSIVE CollectActive_SeenFirst(_, _, _)
CollectActive_SeenFirst(vals, neighborhood, seen_titles) ==
    IF vals = <<>> THEN <<>>
    ELSE LET data == Head(vals) IN
         IF data.title \in seen_titles
         THEN CollectActive_SeenFirst(Tail(vals), neighborhood, seen_titles)
         ELSE (IF IsActiveMatch(data, neighborhood) THEN <<data>> ELSE <<>>)
              \o CollectActive_SeenFirst(Tail(vals), neighborhood,
                                         seen_titles \cup {data.title})

\* the for loop over the values: the list built, given the titles seen so far
RECURSIVE CollectActive(_, _, _)
CollectActive(vals, neighborhood, seen_titles) ==
    IF vals = <<>> THEN <<>>
    ELSE LET data == Head(vals) IN
         IF data.title \in seen_titles
         THEN CollectActive(Tail(vals), neighborhood, seen_titles)
         ELSE IF IsActiveMatch(data, neighborhood)
         THEN <<data>> \o CollectActive(Tail(vals), neighborhood,
                                        seen_titles \cup {data.title})
         ELSE CollectActive(Tail(vals), neighborhood, seen_titles)

ActiveArtworks(db, neighborhood) ==
    SortByTitle(CollectActive(Values(db), neighborhood, {}))

ActiveLine(art) ==
    [title |-> art.title, location |-> art.location, neighborhood |-> art.neighborhood]

list_active_artworks(db, neighborhood, limit) ==
    LET active_artworks == ActiveArtworks(db, neighborhood)
        limited_results == Slice(active_artworks, limit)
    IN  IF active_artworks = <<>>
        THEN [kind |-> "no_active", neighborhood |-> neighborhood]
        ELSE [kind |-> "active", total |-> Len(active_artworks),
              neighborhood |-> neighborhood,
              showing |-> Len(limited_results),
              entries |-> [i \in 1..Len(limited_results) |->
                              ActiveLine(limited_results[i])],
              more |-> IF Len(active_artworks) > limit
                       THEN <<Len(active_artworks) - limit>> ELSE <<>>]

NeighborhoodFilters == {<<>>, <<"b", "C">>, <<"a">>}

\* int(request.args.get('limit', 5)) accepts any integer
Limits == (-1)..MaxLimit

ListActiveArtworks(neighborhood, limit) ==
    /\ pc = "ready"
    /\ call' = [op |-> "list_active_artworks", neighborhood |-> neighborhood,
                limit |-> limit]
    /\ result' = list_active_artworks(status_db, neighborhood, limit)
    /\ pc' = "returned"
    /\ UNCHANGED <<md_files, loaded, status_db>>

----------------------------------------------------------------------------
(* Tools.compare_artwork_status (the second definition) *)

\* the pieces kept as they are, blank ones too
NamesList_Unstripped(artwork_names) ==
    SelectSeq(Split(artwork_names), LAMBDA name : name # <<>>)

\* [name.strip() for name in artwork_names.split(",") if name.strip()]
NamesList(artwork_names) ==
    LET pieces == Split(artwork_names)
        stripped == [i \in 1..Len(pieces) |-> Strip(pieces[i])]
    IN  SelectSeq(stripped, LAMBDA name : name # <<>>)

\* the fuzzy scan of compare: the first entry that matches, or none
RECURSIVE FirstFuzzy(_, _)
FirstFuzzy(db, name_key) ==
    IF db = <<>> THEN <<>>
    ELSE IF Contains(name_key, Head(db)[1])
            \/ Contains(name_key, Lower(Head(db)[2].title))
    THEN <<Head(db)[2]>>
    ELSE FirstFuzzy(Tail(db), name_key)

\* an entry of `results` that the fuzzy scan alone decides
Resolve_ScanOnly(db, name) ==
    LET name_key == Lower(name) IN
    IF FirstFuzzy(db, name_key) # <<>>
    THEN [name |-> name, title |-> FirstFuzzy(db, name_key)[1].title,
          status |-> FirstFuzzy(db, name_key)[1].status, found |-> TRUE]
    ELSE [name |-> name, found |-> FALSE]

\* the entry of `results` for one name
Resolve(db, name) ==
    LET name_key == Lower(name) IN
    IF HasKey(db, name_key)
    THEN [name |-> name, title |-> Get(db, name_key).title,
          status |-> Get(db, name_key).status, found |-> TRUE]
    ELSE IF FirstFuzzy(db, name_key) # <<>>
    THEN [name |-> name, title |-> FirstFuzzy(db, name_key)[1].title,
          status |-> FirstFuzzy(db, name_key)[1].status, found |-> TRUE]
    ELSE [name |-> name, found |-> FALSE]

CompareResults(db, artwork_names) ==
    [i \in 1..Len(NamesList(artwork_names)) |->
        Resolve(db, NamesList(artwork_names)[i])]

\* a first branch that takes every resolved name
IsInPlace_AnyFound(r) == r.found

IsInPlace(r) == r.found /\ r.status = "In place"
IsNotInPlace(r) == r.found /\ r.status # "In place"
IsNotFound(r) == ~r.found

\* the three lists the second loop fills
InPlaceLines(results) ==
    LET kept == SelectSeq(results, IsInPlace)
    IN  [i \in 1..Len(kept) |-> kept[i].title]

NotInPlaceLines(results) ==
    LET kept == SelectSeq(results, IsNotInPlace)
    IN  [i \in 1..Len(kept) |-> [title |-> kept[i].title, status |-> kept[i].status]]

NotFoundLines(results) ==
    LET kept == SelectSeq(results, IsNotFound)
    IN  [i \in 1..Len(kept) |-> kept[i].name]

compare_artwork_status(db, artwork_names) ==
    IF artwork_names = <<>>
    THEN [kind |-> "error", text |-> "Error: No artwork names provided"]
    ELSE IF NamesList(artwork_names) = <<>>
    THEN [kind |-> "error",
          text |-> "Error: Invalid input format. Please provide a comma-separated list of artwork names."]
    ELSE LET results == CompareResults(db, artwork_names) IN
         [kind |-> "comparison",
          in_place |-> InPlaceLines(results),
          not_in_place |-> NotInPlaceLines(results),
          not_found |-> NotFoundLines(results)]

\* the text between two commas of a compare input
Pieces == {<<>>, <<" ">>, <<"A", " ">>, <<"c">>}

RECURSIVE Join(_)
Join(ps) ==
    IF Len(ps) = 1 THEN ps[1] ELSE ps[1] \o <<",">> \o Join(Tail(ps))

PieceLists == UNION {[1..n -> Pieces] : n \in 1..MaxTokens}

CompareInputs == {Join(ps) : ps \in PieceLists}

\* a compare that stores what its first fuzzy scan found under the name asked
CompareArtworkStatus_Caching(artwork_names) ==
    /\ pc = "ready"
    /\ call' = [op |-> "compare_artwork_status", artwork_names |-> artwork_names]
    /\ result' = compare_artwork_status(status_db, artwork_names)
    /\ pc' = "returned"
    /\ status_db' =
          LET names == NamesList(artwork_names) IN
          IF names # <<>> /\ ~HasKey(status_db, Lower(names[1]))
                /\ FirstFuzzy(status_db, Lower(names[1])) # <<>>
          THEN Put(status_db, Lower(names[1]), FirstFuzzy(status_db, Lower(names[1]))[1])
          ELSE status_db
    /\ UNCHANGED <<md_files, loaded>>

CompareArtworkStatus(artwork_names) ==
    /\ pc = "ready"
    /\ call' = [op |-> "compare_artwork_status", artwork_names |-> artwork_names]
    /\ result' = compare_artwork_status(status_db, artwork_names)
    /\ pc' = "returned"
    /\ UNCHANGED <<md_files, loaded, status_db>>

----------------------------------------------------------------------------
(* Tools.list_artworks_by_neighborhood and Tools.list_known_neighborhoods *)

RECURSIVE CollectInNeighborhood(_, _, _)
CollectInNeighborhood(vals, neighborhood, seen_titles) ==
    IF vals = <<>> THEN <<>>
    ELSE LET data == Head(vals) IN
         IF data.title \in seen_titles
         THEN CollectInNeighborhood(Tail(vals), neighborhood, seen_titles)
         ELSE IF InNeighborhood(data, neighborhood)
         THEN <<data>> \o CollectInNeighborhood(Tail(vals), neighborhood,
                                                seen_titles \cup {data.title})
         ELSE CollectInNeighborhood(Tail(vals), neighborhood, seen_titles)

list_artworks_by_neighborhood(db, neighborhood, limit) ==
    LET artworks == SortByTitle(CollectInNeighborhood(Values(db), neighborhood, {}))
        limited_results == Slice(artworks, limit)
    IN  IF artworks = <<>>
        THEN [kind |-> "none_in_neighborhood", neighborhood |-> neighborhood]
        ELSE [kind |-> "in_neighborhood", total |-> Len(artworks),
              neighborhood |-> neighborhood,
              showing |-> Len(limited_results),
              entries |-> [i \in 1..Len(limited_results) |->
                              MatchLine(limited_results[i])],
              more |-> IF Len(artworks) > limit
                       THEN <<Len(artworks) - limit>> ELSE <<>>]

ListArtworksByNeighborhood(neighborhood, limit) ==
    /\ pc = "ready"
    /\ call' = [op |-> "list_artworks_by_neighborhood",
                neighborhood |-> neighborhood, limit |-> limit]
    /\ result' = list_artworks_by_neighborhood(status_db, neighborhood, limit)
    /\ pc' = "returned"
    /\ UNCHANGED <<md_files, loaded, status_db>>

list_known_neighborhoods(db) ==
    LET neighborhoods == {Values(db)[i].neighborhood : i \in 1..Len(db)} \ {<<>>}
    IN  IF neighborhoods = {}
        THEN [kind |-> "no_neighborhoods"]
        ELSE [kind |-> "neighborhoods", names |-> SortedStrings(neighborhoods)]

ListKnownNeighborhoods ==
    /\ pc = "ready"
    /\ call' = [op |-> "list_known_neighborhoods"]
    /\ result' = list_known_neighborhoods(status_db)
    /\ pc' = "returned"
    /\ UNCHANGED <<md_files, loaded, status_db>>

\* the caller has the string; the Tools object waits for the next call
Return ==
    /\ pc = "returned"
    /\ pc' = "ready"
    /\ call' = NoCall
    /\ result' = NoResult
    /\ UNCHANGED <<md_files, loaded, status_db>>

----------------------------------------------------------------------------

Next ==
    \/ LoadFile
    \/ FinishLoad
    \/ \E n \in QueryNames, d \in BOOLEAN : GetArtworkStatus(n, d)
    \/ \E nb \in NeighborhoodFilters, l \in Limits : ListActiveArtworks(nb, l)
    \/ \E names \in CompareInputs : CompareArtworkStatus(names)
    \/ \E nb \in NeighborhoodFilters, l \in Limits : ListArtworksByNeighborhood(nb, l)
    \/ ListKnownNeighborhoods
    \/ Return

Spec == Init /\ [][Next]_vars

\* the status lookups over directories of more files
NextFuzzy ==
    \/ LoadFile
    \/ FinishLoad
    \/ \E n \in QueryNames, d \in BOOLEAN : GetArtworkStatus(n, d)
    \/ Return

SpecFuzzy == InitFuzzy /\ [][NextFuzzy]_vars

\* the constructor alone, over directories whose file names collide
NextIndex ==
    \/ LoadFile
    \/ FinishLoad

SpecIndex == InitIndex /\ [][NextIndex]_vars

----------------------------------------------------------------------------
(* What the claims below speak about *)

\* a query of this name has just returned
After(op) == pc = "returned" /\ call.op = op

\* the records of the files that loaded, whatever the index holds
LoadedRecords ==
    {ParseFile(md_files[i]) : i \in {j \in 1..Len(md_files) : md_files[j].readable}}

\* the result of a status lookup without the query it echoes
WithoutQuery(r) == IF r.kind \in {"fuzzy", "not_found"} THEN [r EXCEPT !.query = <<>>] ELSE r

\* the distinct titles of the index entries the list operation accepts
MatchingTitles(db, neighborhood) ==
    {db[i][2].title : i \in {j \in 1..Len(db) : IsActiveMatch(db[j][2], neighborhood)}}

\* the number of entries list_active_artworks lists
Listed == IF result.kind = "active" THEN Len(result.entries) ELSE 0

\* the pieces of a compare input that are not blank, one per occurrence
Tokens(artwork_names) ==
    SelectSeq(Split(artwork_names),
              LAMBDA piece : \E i \in 1..Len(piece) : piece[i] # " ")

\* the sizes of the three buckets of a comparison
BucketSizes == Len(result.in_place) + Len(result.not_in_place) + Len(result.not_found)

----------------------------------------------------------------------------
(* C1: for every record R that loaded, get_artwork_status(R.name, False)
   returns R's own title and R's own status, also when another record's name
   or title lowercases to the key of R.name. *)
C1_NameLookupReturnsOwnRecord ==
    (After("get_artwork_status") /\ ~call.include_details) =>
        \A R \in LoadedRecords :
            call.artwork_name = R.name =>
                /\ result.kind = "exact"
                /\ result.title = R.title
                /\ result.status = R.status

(* C2 as claimed: two non-empty queries that differ only in letter case get
   identical strings, on the exact, the fuzzy and the no-match path alike. *)
C2_CaseVariantsIdentical ==
    (After("get_artwork_status") /\ call.artwork_name # <<>>) =>
        \A q \in QueryNames :
            Lower(q) = Lower(call.artwork_name) =>
                get_artwork_status(status_db, q, call.include_details) = result

(* C2 as amended: two non-empty queries that differ only in letter case take
   the same path; on the exact path the strings are identical, on the fuzzy
   and the no-match path they are identical but for the query, which each
   string quotes as it was typed. *)
C2_CaseVariantsSameButEcho ==
    (After("get_artwork_status") /\ call.artwork_name # <<>>) =>
        \A q \in QueryNames :
            Lower(q) = Lower(call.artwork_name) =>
                LET other == get_artwork_status(status_db, q, call.include_details)
                IN  /\ WithoutQuery(other) = WithoutQuery(result)
                    /\ result.kind \in {"fuzzy", "not_found"} =>
                          other.query = q /\ result.query = call.artwork_name

C2_Witness ==
    /\ After("get_artwork_status")
    /\ call.artwork_name = <<"C">>
    /\ result.kind = "fuzzy"
    /\ HasKey(status_db, <<"a">>)

(* C3 as claimed: the three buckets of compare_artwork_status hold as many
   entries as the input has distinct non-empty trimmed tokens. *)
C3_BucketsCountDistinctTokens ==
    (After("compare_artwork_status") /\ result.kind = "comparison") =>
        BucketSizes =
            Cardinality({Strip(Tokens(call.artwork_names)[i]) :
                            i \in 1..Len(Tokens(call.artwork_names))})

(* C3 as amended: the three buckets hold as many entries as the input has
   non-empty trimmed tokens, a repeated token counted once per occurrence,
   and each occurrence lands in exactly one bucket: the not-found bucket
   lists, in input order, exactly the tokens that resolved to no record. *)
C3_BucketsCountTokens ==
    (After("compare_artwork_status") /\ Tokens(call.artwork_names) # <<>>) =>
        /\ result.kind = "comparison"
        /\ BucketSizes = Len(Tokens(call.artwork_names))
        /\ result.not_found =
              SelectSeq([i \in 1..Len(Tokens(call.artwork_names)) |->
                            Strip(Tokens(call.artwork_names)[i])],
                        LAMBDA name : ~Resolve(status_db, name).found)

C3_Witness ==
    /\ After("compare_artwork_status")
    /\ call.artwork_names = <<"A", " ", ",", "A", " ">>
    /\ Len(result.in_place) = 2

(* C4 as claimed: for every integer limit list_active_artworks lists at most
   limit entries, and when more artworks match than limit the "N more" line
   is there with N = matching - limit, the number of artworks not listed. *)
C4_AtMostLimitAnyLimit ==
    After("list_active_artworks") =>
        LET total == Cardinality(MatchingTitles(status_db, call.neighborhood))
        IN  /\ Listed <= call.limit
            /\ total > call.limit =>
                  /\ result.kind = "active"
                  /\ result.more = <<total - call.limit>>
                  /\ total - Listed = total - call.limit

(* C4 as amended: for every limit that is not negative list_active_artworks
   lists at most limit entries, and when more artworks match than limit the
   "N more" line is there with N = matching - limit, the number of artworks
   not listed; when no more match than limit, all of them are listed. *)
C4_AtMostLimit ==
    (After("list_active_artworks") /\ call.limit >= 0) =>
        LET total == Cardinality(MatchingTitles(status_db, call.neighborhood))
        IN  /\ Listed <= call.limit
            /\ total > call.limit =>
                  /\ result.kind = "active"
                  /\ result.total = total
                  /\ result.more = <<total - call.limit>>
                  /\ total - Listed = total - call.limit
            /\ total <= call.limit => Listed = total

C4_Witness ==
    /\ After("list_active_artworks")
    /\ call.limit = 1
    /\ result.kind = "active"
    /\ result.total = 3
    /\ result.more = <<2>>

C5_EntryMatches(i) ==
    \/ Contains(Lower(call.artwork_name), status_db[i][1])
    \/ Contains(Lower(call.artwork_name), Lower(status_db[i][2].title))

\* the place of entry i among the entries that match the query
C5_Rank(i) == Cardinality({j \in 1..i : C5_EntryMatches(j)})

C5_OnFuzzyPath ==
    /\ After("get_artwork_status")
    /\ call.artwork_name # <<>>
    /\ ~HasKey(status_db, Lower(call.artwork_name))

(* C5 as claimed: when the query is no key but a substring of a key K, the
   record stored under K is among the matches the text shows, however many
   other entries match. *)
C5_KeyMatchIsShown ==
    C5_OnFuzzyPath =>
        \A i \in 1..Len(status_db) :
            Contains(Lower(call.artwork_name), status_db[i][1]) =>
                /\ result.kind = "fuzzy"
                /\ \E j \in 1..Len(result.shown) :
                      result.shown[j] = MatchLine(status_db[i][2])

(* C5 as amended: when the query is no key but a substring of a key K, the
   entry under K is counted in the number of matches the text reports, and
   its record is shown, at its place in iteration order, when it is one of
   the first five matching entries; the text shows no later match. *)
C5_KeyMatchIsCounted ==
    C5_OnFuzzyPath =>
        \A i \in 1..Len(status_db) :
            Contains(Lower(call.artwork_name), status_db[i][1]) =>
                /\ result.kind = "fuzzy"
                /\ result.count >= C5_Rank(i)
                /\ Len(result.shown) <= MaxShown
                /\ C5_Rank(i) <= MaxShown =>
                      result.shown[C5_Rank(i)] = MatchLine(status_db[i][2])

C5_Witness ==
    /\ C5_OnFuzzyPath
    /\ result.kind = "fuzzy"
    /\ \E i \in 1..Len(status_db) :
          /\ Contains(Lower(call.artwork_name), status_db[i][1])
          /\ C5_Rank(i) > MaxShown
          /\ \A j \in 1..Len(result.shown) :
                result.shown[j] # MatchLine(status_db[i][2])
    /\ \E i \in 1..Len(status_db) :
          /\ Contains(Lower(call.artwork_name), status_db[i][1])
          /\ C5_Rank(i) = MaxShown

(* C6: every entry list_active_artworks lists is the entry of a record whose
   status is exactly "In place" and, under a non-empty filter, whose
   neighbourhood is not empty and contains the filter whatever the case of
   the letters; no title is listed twice.  This holds for every limit. *)
C6_ListedAreInPlace ==
    (After("list_active_artworks") /\ result.kind = "active") =>
        /\ \A j \in 1..Len(result.entries) :
              \E i \in 1..Len(status_db) :
                 LET data == status_db[i][2] IN
                 /\ ActiveLine(data) = result.entries[j]
                 /\ data.status = "In place"
                 /\ call.neighborhood # <<>> =>
                       /\ data.neighborhood # <<>>
                       /\ Contains(Lower(call.neighborhood), Lower(data.neighborhood))
        /\ \A j, k \in 1..Len(result.entries) :
              result.entries[j].title = result.entries[k].title => j = k

C6_Witness ==
    /\ After("list_active_artworks")
    /\ call.neighborhood = <<"b", "C">>
    /\ result.kind = "active"
    /\ Len(result.entries) = 1
    /\ \E i \in 1..Len(status_db) :
          status_db[i][2].status # "In place" /\ status_db[i][2].neighborhood # <<>>
    /\ \E i \in 1..Len(status_db) :
          status_db[i][2].status = "In place" /\ status_db[i][2].neighborhood = <<>>

\* the titles list_active_artworks lists
C7_ListedTitles ==
    IF result.kind = "active"
    THEN {result.entries[j].title : j \in 1..Len(result.entries)} ELSE {}

\* the first index entry that carries the title
C7_FirstCarrying(title) ==
    status_db[CHOOSE i \in 1..Len(status_db) :
                 /\ status_db[i][2].title = title
                 /\ \A j \in 1..(i - 1) : status_db[j][2].title # title][2]

\* the first index entry that carries the title and that the loop accepts
C7_FirstAccepted(title) ==
    status_db[CHOOSE i \in 1..Len(status_db) :
                 /\ status_db[i][2].title = title
                 /\ IsActiveMatch(status_db[i][2], call.neighborhood)
                 /\ \A j \in 1..(i - 1) :
                       ~(/\ status_db[j][2].title = title
                         /\ IsActiveMatch(status_db[j][2], call.neighborhood))][2]

C7_Titles == {status_db[i][2].title : i \in 1..Len(status_db)}

\* a call whose limit cuts nothing off
C7_Uncut ==
    /\ After("list_active_artworks")
    /\ Cardinality(MatchingTitles(status_db, call.neighborhood)) <= call.limit

(* C7 as claimed: the titles are deduplicated before the filter: a title is
   listed iff the first index entry that carries it is "In place" and passes
   the neighbourhood filter. *)
C7_FirstEntryDecides ==
    C7_Uncut =>
        \A title \in C7_Titles :
            title \in C7_ListedTitles <=>
                IsActiveMatch(C7_FirstCarrying(title), call.neighborhood)

(* C7 as amended: the filter comes before the deduplication: a title is
   listed iff some index entry that carries it is "In place" and passes the
   neighbourhood filter, and what is listed is the first such entry; an
   earlier entry of the same title that fails the filter hides nothing. *)
C7_FirstAcceptedDecides ==
    C7_Uncut =>
        /\ C7_ListedTitles = MatchingTitles(status_db, call.neighborhood)
        /\ \A j \in 1..Listed :
              result.entries[j] =
                 ActiveLine(C7_FirstAccepted(result.entries[j].title))

C7_Witness ==
    /\ C7_Uncut
    /\ \E title \in C7_ListedTitles :
          ~IsActiveMatch(C7_FirstCarrying(title), call.neighborhood)

(* C8: once the constructor has built the index, no call of
   get_artwork_status, list_active_artworks, compare_artwork_status,
   list_artworks_by_neighborhood or list_known_neighborhoods changes it. *)
C8_QueriesLeaveIndex == [][pc # "loading" => status_db' = status_db]_vars

C8_Witness ==
    /\ After("compare_artwork_status")
    /\ result.kind = "comparison"
    /\ Len(result.in_place) = 1
    /\ Len(result.not_found) = 1
    /\ Len(status_db) > 2

ReadableOnly(files) == SelectSeq(files, LAMBDA f : f.readable)

\* the index the loader builds from files that can all be read
RECURSIVE C9_IndexOf(_)
C9_IndexOf(files) ==
    IF files = <<>> THEN <<>>
    ELSE StoreRecord(C9_IndexOf(SubSeq(files, 1, Len(files) - 1)),
                     ParseFile(files[Len(files)]))

(* C9: a file that cannot be read does not end the load: the loop goes
   through every file of the directory, the failing file leaves no entry,
   and the index is the one the directory without that file gives.  When no
   file can be read the index is empty and every query answers that it
   found nothing. *)
C9_FailedFilesLeaveNoTrace ==
    /\ pc \in {"loading", "ready"} =>
          /\ status_db = C9_IndexOf(ReadableOnly(SubSeq(md_files, 1, loaded)))
          /\ \A i \in 1..loaded :
                ~md_files[i].readable =>
                   \A k \in 1..Len(status_db) :
                      status_db[k][2].name # md_files[i].name
    /\ pc = "ready" => loaded = Len(md_files)
    /\ (pc = "returned" /\ ReadableOnly(md_files) = <<>>) =>
          /\ status_db = <<>>
          /\ result.kind \in {"error", "not_found", "no_active", "comparison",
                              "none_in_neighborhood", "no_neighborhoods"}
          /\ result.kind = "comparison" =>
                result.in_place = <<>> /\ result.not_in_place = <<>>

C9_Witness ==
    /\ pc = "ready"
    /\ Len(md_files) = 3
    /\ ~md_files[1].readable
    /\ md_files[2].readable
    /\ ~md_files[3].readable
    /\ Len(status_db) = 2

(* C10: empty input gets an error text, not an empty string: the no-name
   error for get_artwork_status(""), the no-names error for
   compare_artwork_status(""), and for a compare input that is not empty but
   whose pieces are all blank a format error that is not the no-names
   error; the text is the same whatever the index holds. *)
C10_EmptyInputIsAnError ==
    /\ (After("get_artwork_status") /\ call.artwork_name = <<>>) =>
          result = [kind |-> "error", text |-> "Error: No artwork name provided"]
    /\ (After("compare_artwork_status") /\ call.artwork_names = <<>>) =>
          result = [kind |-> "error", text |-> "Error: No artwork names provided"]
    /\ (After("compare_artwork_status") /\ call.artwork_names # <<>>
           /\ Tokens(call.artwork_names) = <<>>) =>
          /\ result.kind = "error"
          /\ result.text \notin {"", "Error: No artwork names provided",
                                 "Error: No artwork name provided"}
          /\ result = compare_artwork_status(<<>>, call.artwork_names)

C10_Witness ==
    /\ After("compare_artwork_status")
    /\ call.artwork_names = <<" ", ",", " ">>
    /\ result.kind = "error"
    /\ status_db # <<>>

\* the names compare resolves: the pieces that are not blank, trimmed
C11_Names == [i \in 1..Len(Tokens(call.artwork_names)) |->
                 Strip(Tokens(call.artwork_names)[i])]

\* the index entries whose key or lowercased title contains the lowercased name
C11_Containing(name) ==
    {i \in 1..Len(status_db) :
        \/ Contains(Lower(name), status_db[i][1])
        \/ Contains(Lower(name), Lower(status_db[i][2].title))}

\* the place in the index of the entry a name stands for, 0 when there is none
C11_EntryOf(name) ==
    IF \E i \in 1..Len(status_db) : status_db[i][1] = Lower(name)
    THEN CHOOSE i \in 1..Len(status_db) : status_db[i][1] = Lower(name)
    ELSE IF C11_Containing(name) # {}
    THEN CHOOSE i \in C11_Containing(name) :
            \A j \in C11_Containing(name) : i <= j
    ELSE 0

\* the records the names stand for, in input order, those of no record left out
C11_Records ==
    LET found == SelectSeq(C11_Names, LAMBDA name : C11_EntryOf(name) # 0)
    IN  [i \in 1..Len(found) |-> status_db[C11_EntryOf(found[i])][2]]

(* C11: compare_artwork_status resolves each name on its own and in input
   order: a name whose lowercase is an index key stands for the record under
   that key, whatever other entries contain it; any other name stands for the
   first entry in iteration order whose key or lowercased title contains its
   lowercase; a name is listed as not found iff it is no key and no key and
   no title contains it. *)
C11_NamesResolveInOrder ==
    (After("compare_artwork_status") /\ Tokens(call.artwork_names) # <<>>) =>
        /\ result.kind = "comparison"
        /\ result.not_found =
              SelectSeq(C11_Names,
                        LAMBDA name : /\ \A i \in 1..Len(status_db) :
                                            status_db[i][1] # Lower(name)
                                      /\ C11_Containing(name) = {})
        /\ result.in_place =
              LET kept == SelectSeq(C11_Records, LAMBDA r : r.status = "In place")
              IN  [i \in 1..Len(kept) |-> kept[i].title]
        /\ result.not_in_place =
              LET kept == SelectSeq(C11_Records, LAMBDA r : r.status # "In place")
              IN  [i \in 1..Len(kept) |-> [title |-> kept[i].title,
                                           status |-> kept[i].status]]

\* a name that is a key behind an entry that contains it, and a name that is
\* no key and that two entries of different records contain
C11_Witness ==
    /\ After("compare_artwork_status")
    /\ C11_Names = << <<"A">>, <<"c">> >>
    /\ C11_EntryOf(<<"A">>) > 1
    /\ 1 \in C11_Containing(<<"A">>)
    /\ status_db[1][2].title # status_db[C11_EntryOf(<<"A">>)][2].title
    /\ \E i, j \in C11_Containing(<<"c">>) :
          status_db[i][2].title # status_db[j][2].title

\* the index entries that match the query of the call
C12_Matching == {i \in 1..Len(status_db) : C5_EntryMatches(i)}

\* the k-th of them in iteration order
C12_Nth(k) == CHOOSE i \in C12_Matching : C5_Rank(i) = k

\* two entries of one record, stored under its name and under its title
C12_SameRecord(i, j) ==
    /\ i # j
    /\ status_db[i][2] = status_db[j][2]
    /\ status_db[i][1] = Lower(status_db[i][2].name)
    /\ status_db[j][1] = Lower(status_db[j][2].title)

(* C12: when the query is not empty, is no index key and M >= 1 index
   entries match it (the key or the lowercased title of the entry contains
   the lowercased query), get_artwork_status reports M, lists min(M, 5)
   lines, the k-th line being the title and status of the k-th matching
   entry in iteration order, and has the "And N more matches" line iff
   M > 5, with N = M - 5.  Entries are counted, not records: a record that
   matches under its name key and under its title key counts twice and has
   one line for each of the two entries that is among the first five. *)
C12_FuzzyCountsAndLists ==
    (C5_OnFuzzyPath /\ C12_Matching # {}) =>
        LET M == Cardinality(C12_Matching) IN
        /\ result.kind = "fuzzy"
        /\ result.count = M
        /\ Len(result.shown) = (IF M < MaxShown THEN M ELSE MaxShown)
        /\ \A k \in 1..Len(result.shown) :
              result.shown[k] = MatchLine(status_db[C12_Nth(k)][2])
        /\ result.more # <<>> <=> M > MaxShown
        /\ M > MaxShown => result.more = <<M - MaxShown>>
        /\ \A i, j \in C12_Matching :
              C12_SameRecord(i, j) =>
                 /\ M >= 2
                 /\ \A k \in {C5_Rank(i), C5_Rank(j)} :
                       k <= MaxShown =>
                          result.shown[k] = MatchLine(status_db[i][2])

\* seven entries match, two of them are left out, and a record whose name
\* does not contain the query has a line for each of its two keys
C12_Witness ==
    /\ C5_OnFuzzyPath
    /\ result.kind = "fuzzy"
    /\ result.count = MaxShown + 2
    /\ result.more = <<2>>
    /\ \E i, j \in C12_Matching :
          /\ C12_SameRecord(i, j)
          /\ ~Contains(Lower(call.artwork_name), status_db[i][1])
          /\ C5_Rank(i) <= MaxShown
          /\ C5_Rank(j) <= MaxShown

\* the records of the readable files the loop has gone through
C13_Loaded ==
    {ParseFile(md_files[i]) : i \in {j \in 1..loaded : md_files[j].readable}}

(* C13: while the loader runs and after it, whatever the files and their
   order and whichever entries later files have overwritten: every index
   key is the lowercased name or the lowercased title of the record stored
   under it, that record is the record of a file that loaded, no key is
   there twice, and a record is in the index twice only under its lowercased
   name and its lowercased title, which then differ; a record whose title
   and name lowercase to the same key is stored once. *)
C13_KeysAreNamesOrTitles ==
    pc \in {"loading", "ready"} =>
        /\ \A i \in 1..Len(status_db) :
              /\ status_db[i][1] \in {Lower(status_db[i][2].name),
                                      Lower(status_db[i][2].title)}
              /\ status_db[i][2] \in C13_Loaded
        /\ \A i, j \in 1..Len(status_db) :
              /\ status_db[i][1] = status_db[j][1] => i = j
              /\ (i # j /\ status_db[i][2] = status_db[j][2]) =>
                    /\ Lower(status_db[i][2].name) # Lower(status_db[i][2].title)
                    /\ {status_db[i][1], status_db[j][1]} =
                          {Lower(status_db[i][2].name), Lower(status_db[i][2].title)}

\* two files whose names lowercase to one key have loaded, a record is
\* stored under its title, and a record whose title is not its name but
\* lowercases to the same key is stored
C13_Witness ==
    /\ pc = "ready"
    /\ \E i, j \in 1..Len(md_files) :
          /\ i < j
          /\ md_files[i].readable /\ md_files[j].readable
          /\ Lower(md_files[i].name) = Lower(md_files[j].name)
    /\ \E k \in 1..Len(status_db) :
          status_db[k][1] # Lower(status_db[k][2].name)
    /\ \E k \in 1..Len(status_db) :
          /\ status_db[k][2].title # status_db[k][2].name
          /\ Lower(status_db[k][2].title) = Lower(status_db[k][2].name)

====
